---- MODULE Spec2Model ----
(***************************************************************************)
(* Model of the audio scheduler: the `schedule` daemon and the manual      *)
(* `play` command of audio-player.py, the state file play_state.json they  *)
(* share, and the Flask control surface of api.py.                         *)
(*                                                                         *)
(* Time is a counter of ticks; a date is TicksPerDay consecutive ticks.    *)
(* The host's local clock and TIMEZONE are taken to agree.                 *)
(***************************************************************************)
EXTENDS Integers, Sequences, FiniteSets, TLC

VARIABLES
    now,          \* the wall clock, in ticks since the start of day 0
    dow0,         \* weekday() of day 0 (Monday is 0, Sunday is 6)
    state_file,   \* play_state.json
    request_file, \* play_request.json
    sched_pc,     \* the `schedule` process: "down", "idle", "playing", "saving"
    jobs,         \* the jobs registered with the schedule library
    sched_call,   \* call_name of the play_audio the schedule process is in
    sched_state,  \* `state` local of that play_audio
    startup,      \* history: when the running schedule process was started
                  \* and the calls its schedule_audio_jobs left out
    resolved,     \* history: the inputs of the schedule_audio_jobs of this step
    man_pc,       \* the `play` process: "off", "playing", "saving"
    man_state,    \* `state` local of its play_audio
    loaded,       \* history: the last load_state, what it read and returned
    last,         \* history: the last play_audio of the schedule process on this date
    manLast,      \* history: the last play_audio of the `play` process on this date
    played,       \* history: the calls the scheduler has played on this date
    replayed,     \* history: it has played some call twice on one date
    saveFailed,   \* history: a save_state after a successful play did not complete
    resp          \* history: the last response of the control surface

vars == <<now, dow0, state_file, request_file, sched_pc, jobs, sched_call,
          sched_state, startup, resolved, man_pc, man_state, loaded, last,
          manLast, played, replayed, saveFailed, resp>>

fileVars == <<state_file, request_file>>
schedVars == <<sched_pc, jobs, sched_call, sched_state, startup>>
manVars == <<man_pc, man_state>>

----------------------------------------------------------------------------
\* Bounds of the model

TicksPerDay == 3
MaxDay == 1

MaxTime == (MaxDay + 1) * TicksPerDay - 1

----------------------------------------------------------------------------
\* The clock

\* datetime.now(TIMEZONE).strftime('%Y-%m-%d')
Date(t) == t \div TicksPerDay

\* now.time()
TimeOfDay(t) == t % TicksPerDay

\* now.weekday()
Weekday(t) == (dow0 + Date(t)) % 7

Today == Date(now)

----------------------------------------------------------------------------
\* schedule.yml / config.yml

Weekdays == [reveille |-> [time |-> 1, audio_file |-> "reveille.mp3"],
             taps     |-> [time |-> 2, audio_file |-> "taps.mp3"]]

Weekends == [church   |-> [time |-> 1, audio_file |-> "church.mp3"]]

ManualPlayback == "Manual Playback"

CallNames == (DOMAIN Weekdays) \cup (DOMAIN Weekends)

\* what open and yaml.safe_load find of schedule.yml
Documents == {"ok", "missing", "malformed"}

\* {}
NoCalls == [call \in {} |-> [time |-> 0, audio_file |-> ""]]

load_schedule(document) ==
    IF document = "ok" THEN <<Weekdays, Weekends>> ELSE <<NoCalls, NoCalls>>

----------------------------------------------------------------------------
\* play_state.json

NoDate == 0 - 1

Absent  == [kind |-> "absent",  date |-> NoDate, played_calls |-> <<>>]
Corrupt == [kind |-> "corrupt", date |-> NoDate, played_calls |-> <<>>]
\* the file between open(STATE_FILE, 'w') and the flush of json.dump
Truncated == [kind |-> "empty", date |-> NoDate, played_calls |-> <<>>]

Json(state) == [kind |-> "json", date |-> state.date,
                played_calls |-> state.played_calls]

NoState == [date |-> NoDate, played_calls |-> <<>>]

FreshState(today) == [date |-> today, played_calls |-> <<>>]

Contains(seq, x) == \E i \in 1..Len(seq) : seq[i] = x

\* a variant without the check of the date
load_state_any_date(file, today) ==
    IF file.kind = "json"
    THEN [date |-> file.date, played_calls |-> file.played_calls]
    ELSE FreshState(today)

load_state(file, today) ==
    IF file.kind = "json"
    THEN IF file.date # today
         THEN FreshState(today)
         ELSE [date |-> file.date, played_calls |-> file.played_calls]
    ELSE FreshState(today)

----------------------------------------------------------------------------
\* play_request.json
NoRequest == [kind |-> "absent", call |-> "", timestamp |-> NoDate]
TruncatedRequest == [kind |-> "empty", call |-> "", timestamp |-> NoDate]
Payload(call, t) == [kind |-> "json", call |-> call, timestamp |-> t]

----------------------------------------------------------------------------
\* History values

NoLoad == [kind |-> "none", date |-> NoDate, today |-> NoDate, state |-> NoState]

Load(file, today) ==
    [kind |-> file.kind, date |-> file.date, today |-> today,
     state |-> load_state(file, today)]

\* again: the call had been played before on the date of this play_audio
NoPlay == [call |-> "", date |-> NoDate, result |-> "none", again |-> FALSE]

NoStartup == [date |-> NoDate, skipped |-> {}]

NoResolve == [document |-> "", initial_startup |-> FALSE]

NoResp == [endpoint |-> "", token |-> "", call |-> "", exists |-> FALSE,
           code |-> 0, result |-> "", date |-> NoDate, body |-> Absent]

----------------------------------------------------------------------------
\* The schedule library: schedule.every().day.at(t).do(play_audio, file, call)

\* Job._schedule_next_run: the first instant after t whose time of day is at
NextRun(at, t) ==
    IF at > TimeOfDay(t)
    THEN Date(t) * TicksPerDay + at
    ELSE (Date(t) + 1) * TicksPerDay + at

Job(call, details, t) ==
    [call |-> call, audio_file |-> details.audio_file, at |-> details.time,
     next_run |-> NextRun(details.time, t)]

\* Job.should_run
Due(t) == {j \in jobs : t >= j.next_run}

\* run_pending runs the due jobs in the order of their next_run
FirstDue(t) == CHOOSE j \in Due(t) : \A k \in Due(t) : j.next_run <= k.next_run

\* Job.run, after job_func has returned: last_run = now, _schedule_next_run()
\* a variant that leaves the job's next run where it was
Rescheduled_not(call, t) == jobs

Rescheduled(call, t) ==
    {IF j.call = call THEN [j EXCEPT !.next_run = NextRun(j.at, t)] ELSE j
        : j \in jobs}

----------------------------------------------------------------------------
\* schedule_audio_jobs

SelectedSchedule(t, document) ==
    IF Weekday(t) <= 4 THEN load_schedule(document)[1]
                       ELSE load_schedule(document)[2]

\* a variant that takes the branch on every start
SkippedAtStartup_any_start(initial_startup, t, details, call, state) ==
    /\ TimeOfDay(t) > details.time
    /\ ~Contains(state.played_calls, call)

\* the `continue` of the initial-startup branch
SkippedAtStartup(initial_startup, t, details, call, state) ==
    /\ initial_startup
    /\ TimeOfDay(t) > details.time
    /\ ~Contains(state.played_calls, call)

\* the calls of the selected schedule that are not registered
SkippedCalls(initial_startup, t, file, document) ==
    LET selected_schedule == SelectedSchedule(t, document)
        state == load_state(file, Date(t))
    IN  {c \in DOMAIN selected_schedule :
            SkippedAtStartup(initial_startup, t, selected_schedule[c], c,
                             state)}

schedule_audio_jobs(initial_startup, t, file, document) ==
    LET selected_schedule == SelectedSchedule(t, document)
    IN  {Job(call, selected_schedule[call], t) :
            call \in (DOMAIN selected_schedule)
                        \ SkippedCalls(initial_startup, t, file, document)}

----------------------------------------------------------------------------
\* play_audio

\* a variant that never consults played_calls
AlreadyPlayed_never(state, call_name) == FALSE

AlreadyPlayed(state, call_name) == Contains(state.played_calls, call_name)

\* state after lines 55-60
StateAtEntry(file, today) ==
    LET state == load_state(file, today)
    IN  IF state.date # today THEN FreshState(today) ELSE state

MarkPlayed(state, call_name) ==
    [state EXCEPT !.played_calls = Append(@, call_name)]

\* a variant that saves the state after every failed playback
ErrorSaves_always(state, call_name) == TRUE

\* the except branch: whether it saves a state, and the state it saves
ErrorSaves(state, call_name) == Contains(state.played_calls, call_name)

\* list.remove, which the code calls only when x is in the list: without
\* the first occurrence of x
Remove(seq, x) ==
    IF Contains(seq, x)
    THEN LET i == CHOOSE k \in 1..Len(seq) :
                      seq[k] = x /\ \A m \in 1..(k - 1) : seq[m] # x
         IN  SubSeq(seq, 1, i - 1) \o SubSeq(seq, i + 1, Len(seq))
    ELSE seq

AfterError(state, call_name) ==
    [state EXCEPT !.played_calls = Remove(@, call_name)]

----------------------------------------------------------------------------
\* The state after construction: no process runs yet, on any day of the week

Init ==
    /\ now = 0
    /\ dow0 \in 0..6
    /\ state_file \in {Absent, Corrupt}
    /\ request_file = NoRequest
    /\ sched_pc = "down"
    /\ jobs = {}
    /\ sched_call = ""
    /\ sched_state = NoState
    /\ startup = NoStartup
    /\ resolved = NoResolve
    /\ man_pc = "off"
    /\ man_state = NoState
    /\ loaded = NoLoad
    /\ last = NoPlay
    /\ manLast = "none"
    /\ played = {}
    /\ replayed = FALSE
    /\ saveFailed = FALSE
    /\ resp = NoResp

----------------------------------------------------------------------------
\* The clock. The loop of main calls run_pending every second, so while the
\* schedule process is idle a due job is run before the clock moves on; time
\* passes freely while a clip is playing.

Tick ==
    /\ now < MaxTime
    /\ ~(sched_pc = "idle" /\ Due(now) # {})
    /\ now' = now + 1
    /\ IF Date(now + 1) # Date(now)
       THEN /\ last' = IF sched_pc \in {"playing", "saving"}
                        THEN last ELSE NoPlay
            /\ manLast' = "none"
            /\ played' = {}
       ELSE UNCHANGED <<last, manLast, played>>
    /\ loaded' = NoLoad
    /\ resolved' = NoResolve
    /\ resp' = NoResp
    /\ UNCHANGED <<dow0, fileVars, schedVars, manVars, replayed, saveFailed>>

----------------------------------------------------------------------------
\* The schedule process

\* main, command 'schedule': schedule_audio_jobs, then the loop;
\* initial_startup is whether the host has been up for less than 300 s
Start(initial_startup, document) ==
    /\ sched_pc = "down"
    /\ jobs' = schedule_audio_jobs(initial_startup, now, state_file, document)
    /\ startup' = [date |-> Today,
                   skipped |-> SkippedCalls(initial_startup, now, state_file,
                                            document)]
    /\ resolved' = [document |-> document,
                    initial_startup |-> initial_startup]
    /\ sched_pc' = "idle"
    /\ loaded' = Load(state_file, Today)
    /\ last' = NoPlay
    /\ resp' = NoResp
    /\ UNCHANGED <<now, dow0, fileVars, sched_call, sched_state, manVars,
                   manLast, played, replayed, saveFailed>>

\* run_pending calls play_audio for a due job; play_audio up to the check
\* of played_calls, and the return when the call was already played
RunPending ==
    /\ sched_pc = "idle"
    /\ Due(now) # {}
    /\ LET job == FirstDue(now)
           state == StateAtEntry(state_file, Today)
       IN  /\ loaded' = Load(state_file, Today)
           /\ resolved' = NoResolve
           /\ IF AlreadyPlayed(state, job.call)
              THEN /\ jobs' = Rescheduled(job.call, now)
                   /\ last' = [call |-> job.call, date |-> Today,
                               result |-> "skipped", again |-> FALSE]
                   /\ UNCHANGED <<sched_pc, sched_call, sched_state>>
              ELSE /\ sched_pc' = "playing"
                   /\ sched_call' = job.call
                   /\ sched_state' = state
                   /\ last' = [call |-> job.call, date |-> Today,
                               result |-> "playing",
                               again |-> job.call \in played]
                   /\ UNCHANGED jobs
    /\ resp' = NoResp
    /\ UNCHANGED <<now, dow0, fileVars, startup, manVars, manLast, played,
                   replayed, saveFailed>>

\* the clip has played: mark it, and save_state opens the file for writing
\* (which empties it) or fails with IOError (which is logged)
PlaySucceeds ==
    /\ sched_pc = "playing"
    /\ sched_state' = MarkPlayed(sched_state, sched_call)
    /\ last' = [last EXCEPT !.result = "played"]
    /\ played' = IF sched_state.date = Today
                 THEN played \cup {sched_call} ELSE played
    /\ replayed' = (replayed \/ last.again)
    /\ \/ /\ state_file' = Truncated
          /\ sched_pc' = "saving"
          /\ UNCHANGED <<jobs, sched_call, saveFailed>>
       \/ /\ saveFailed' = TRUE
          /\ sched_pc' = "idle"
          /\ jobs' = Rescheduled(sched_call, now)
          /\ sched_call' = ""
          /\ UNCHANGED state_file
    /\ loaded' = NoLoad
    /\ resolved' = NoResolve
    /\ resp' = NoResp
    /\ UNCHANGED <<now, dow0, request_file, startup, manVars, manLast>>

\* json.dump and the close of the file; play_audio returns
SaveWritten ==
    /\ sched_pc = "saving"
    /\ state_file' = Json(sched_state)
    /\ sched_pc' = "idle"
    /\ jobs' = Rescheduled(sched_call, now)
    /\ sched_call' = ""
    /\ sched_state' = NoState
    /\ loaded' = NoLoad
    /\ resolved' = NoResolve
    /\ resp' = NoResp
    /\ UNCHANGED <<now, dow0, request_file, startup, manVars, last, manLast,
                   played, replayed, saveFailed>>

\* pygame.error: the except branch, then play_audio returns
PlayFails ==
    /\ sched_pc = "playing"
    /\ last' = [last EXCEPT !.result = "failed"]
    /\ IF ErrorSaves(sched_state, sched_call)
       THEN /\ sched_state' = AfterError(sched_state, sched_call)
            /\ state_file' = Truncated
            /\ sched_pc' = "saving"
            /\ UNCHANGED <<jobs, sched_call>>
       ELSE /\ sched_pc' = "idle"
            /\ jobs' = Rescheduled(sched_call, now)
            /\ sched_call' = ""
            /\ sched_state' = NoState
            /\ UNCHANGED state_file
    /\ loaded' = NoLoad
    /\ resolved' = NoResolve
    /\ resp' = NoResp
    /\ UNCHANGED <<now, dow0, request_file, startup, manVars, manLast,
                   played, replayed, saveFailed>>

\* the process is stopped (service restart, reboot, power loss)
Stop ==
    /\ sched_pc # "down"
    /\ sched_pc' = "down"
    /\ jobs' = {}
    /\ sched_call' = ""
    /\ sched_state' = NoState
    /\ startup' = NoStartup
    /\ saveFailed' = (saveFailed \/ sched_pc = "saving")
    /\ last' = NoPlay
    /\ loaded' = NoLoad
    /\ resolved' = NoResolve
    /\ resp' = NoResp
    /\ UNCHANGED <<now, dow0, fileVars, manVars, manLast, played, replayed>>

Scheduler ==
    \/ \E initial_startup \in BOOLEAN, document \in Documents :
            Start(initial_startup, document)
    \/ RunPending
    \/ PlaySucceeds
    \/ SaveWritten
    \/ PlayFails
    \/ Stop

----------------------------------------------------------------------------
\* The manual play process: main, command 'play', which is
\* play_audio(args.filepath, 'Manual Playback', args.volume)

ManualEnter ==
    /\ man_pc = "off"
    /\ LET state == StateAtEntry(state_file, Today)
       IN  /\ loaded' = Load(state_file, Today)
           /\ resolved' = NoResolve
           /\ IF AlreadyPlayed(state, ManualPlayback)
              THEN /\ manLast' = "skipped"
                   /\ UNCHANGED manVars
              ELSE /\ man_pc' = "playing"
                   /\ man_state' = state
                   /\ manLast' = "playing"
    /\ resp' = NoResp
    /\ UNCHANGED <<now, dow0, fileVars, schedVars, last, played, replayed,
                   saveFailed>>

ManualSucceeds ==
    /\ man_pc = "playing"
    /\ man_state' = MarkPlayed(man_state, ManualPlayback)
    /\ manLast' = "played"
    /\ \/ /\ state_file' = Truncated
          /\ man_pc' = "saving"
       \/ /\ man_pc' = "off"
          /\ UNCHANGED state_file
    /\ loaded' = NoLoad
    /\ resolved' = NoResolve
    /\ resp' = NoResp
    /\ UNCHANGED <<now, dow0, request_file, schedVars, last, played, replayed,
                   saveFailed>>

ManualSaveWritten ==
    /\ man_pc = "saving"
    /\ state_file' = Json(man_state)
    /\ man_pc' = "off"
    /\ man_state' = NoState
    /\ loaded' = NoLoad
    /\ resolved' = NoResolve
    /\ resp' = NoResp
    /\ UNCHANGED <<now, dow0, request_file, schedVars, last, manLast, played,
                   replayed, saveFailed>>

ManualFails ==
    /\ man_pc = "playing"
    /\ manLast' = "failed"
    /\ IF ErrorSaves(man_state, ManualPlayback)
       THEN /\ man_state' = AfterError(man_state, ManualPlayback)
            /\ state_file' = Truncated
            /\ man_pc' = "saving"
       ELSE /\ man_pc' = "off"
            /\ man_state' = NoState
            /\ UNCHANGED state_file
    /\ loaded' = NoLoad
    /\ resolved' = NoResolve
    /\ resp' = NoResp
    /\ UNCHANGED <<now, dow0, request_file, schedVars, last, played, replayed,
                   saveFailed>>

Manual ==
    \/ ManualEnter
    \/ ManualSucceeds
    \/ ManualSaveWritten
    \/ ManualFails

----------------------------------------------------------------------------
\* api.py: the control surface

\* config.yml
config == [api_token |-> "secret", weekdays |-> Weekdays, weekends |-> Weekends]

\* request.headers.get("X-API-Token") of a request without the header
NoHeader == "<None>"

Tokens == {NoHeader, "", "wrong", config.api_token}

RequestedCalls == CallNames \cup {"bogus"}

\* `not token`
Falsy(token) == token \in {NoHeader, ""}

\* a variant that accepts any token that is not empty
require_token_nonempty(token) == ~Falsy(token)

\* require_token: whether decorated() calls f
require_token(token) == ~(Falsy(token) \/ token # config.api_token)

\* a variant that takes the weekday profile every day
get_todays_schedule_weekdays(t) == config.weekdays

get_todays_schedule(t) ==
    IF Weekday(t) < 5 THEN config.weekdays ELSE config.weekends

\* GET /status
status(token) ==
    /\ IF ~require_token(token)
       THEN resp' = [NoResp EXCEPT !.endpoint = "status", !.token = token,
                        !.code = 401, !.result = "unauthorized",
                        !.date = Today]
       ELSE IF state_file.kind = "json"
       THEN resp' = [NoResp EXCEPT !.endpoint = "status", !.token = token,
                        !.code = 200, !.result = "state", !.date = Today,
                        !.body = state_file]
       ELSE resp' = [NoResp EXCEPT !.endpoint = "status", !.token = token,
                        !.code = 500, !.result = "Unable to read state",
                        !.date = Today, !.body = state_file]
    /\ loaded' = NoLoad
    /\ resolved' = NoResolve
    /\ UNCHANGED <<now, dow0, fileVars, schedVars, manVars, last, manLast,
                   played, replayed, saveFailed>>

\* POST /play {"call": call}; exists is os.path.exists(full_path), and
\* written is whether open and json.dump of the request file succeed
play(token, call, exists, written) ==
    LET request == [NoResp EXCEPT !.endpoint = "play", !.token = token,
                       !.call = call, !.exists = exists, !.date = Today]
        schedule == get_todays_schedule(now)
    IN  /\ IF ~require_token(token)
           THEN /\ resp' = [request EXCEPT !.code = 401,
                                           !.result = "unauthorized"]
                /\ UNCHANGED request_file
           ELSE IF call \notin DOMAIN schedule
           THEN /\ resp' = [request EXCEPT !.code = 404,
                                           !.result = "not in schedule"]
                /\ UNCHANGED request_file
           ELSE IF ~exists
           THEN /\ resp' = [request EXCEPT !.code = 404,
                                           !.result = "File not found"]
                /\ UNCHANGED request_file
           ELSE IF written
           THEN /\ resp' = [request EXCEPT !.code = 200, !.result = "queued"]
                /\ request_file' = Payload(call, now)
           ELSE /\ resp' = [request EXCEPT !.code = 500,
                                           !.result = "Internal error"]
                /\ request_file' \in {request_file, TruncatedRequest}
        /\ loaded' = NoLoad
        /\ resolved' = NoResolve
        /\ UNCHANGED <<now, dow0, state_file, schedVars, manVars, last,
                       manLast, played, replayed, saveFailed>>

Status == \E token \in Tokens : status(token)

Play ==
    \E token \in Tokens, call \in RequestedCalls, exists \in BOOLEAN,
       written \in BOOLEAN :
        play(token, call, exists, written)

----------------------------------------------------------------------------
\* Specifications

\* audio-player.py: the schedule process and the manual play command
Next ==
    \/ Tick
    \/ Scheduler
    \/ Manual

Spec == Init /\ [][Next]_vars

\* the schedule process alone
NextSched ==
    \/ Tick
    \/ Scheduler

SpecSched == Init /\ [][NextSched]_vars

\* the schedule process and readers of its state through GET /status
NextStatus ==
    \/ Tick
    \/ Scheduler
    \/ Status

SpecStatus == Init /\ [][NextStatus]_vars

\* api.py alone
NextApi ==
    \/ Tick
    \/ Status
    \/ Play

SpecApi == Init /\ [][NextApi]_vars

\* the schedule process on days without failure: schedule.yml is well
\* formed, the process is started before the first time of the day's
\* schedule and is not stopped, every playback and every save succeeds
BeforeFirstDue ==
    \A call \in DOMAIN SelectedSchedule(now, "ok") :
        TimeOfDay(now) < SelectedSchedule(now, "ok")[call].time

NextNormalDay ==
    \/ Tick
    \/ \E initial_startup \in BOOLEAN :
            BeforeFirstDue /\ Start(initial_startup, "ok")
    \/ RunPending
    \/ PlaySucceeds /\ sched_pc' = "saving"
    \/ SaveWritten

SpecNormalDay == Init /\ [][NextNormalDay]_vars

\* one schedule process that is never stopped
NextOneRun ==
    \/ Tick
    \/ \E initial_startup \in BOOLEAN, document \in Documents :
            Start(initial_startup, document)
    \/ RunPending
    \/ PlaySucceeds
    \/ SaveWritten
    \/ PlayFails

SpecOneRun == Init /\ [][NextOneRun]_vars

----------------------------------------------------------------------------
\* Properties

\* the profile active on a date: the weekday profile from Monday to Friday,
\* the weekend profile on Saturday and Sunday
ActiveProfile(date) ==
    IF (dow0 + date) % 7 \in 0..4 THEN Weekdays ELSE Weekends

\* C1: on any date, as long as every save_state after a successful play of
\* that date has completed, the schedule process has played no call twice,
\* whatever the firings, failures, restarts and day changes.
C1_AtMostOncePerDay == replayed => saveFailed

\* C1 witness: a job came due for a call already played on this date, and
\* play_audio skipped it.
C1_Witness ==
    /\ last.result = "skipped"
    /\ last.date = Today
    /\ last.call \in played
    /\ ~saveFailed
    /\ ~replayed

\* C2: after a failed playback the call stays a candidate for the rest of
\* the date: while the process idles on that date, its job is still due.
C2_FailedCallStaysDue ==
    (last.result = "failed" /\ last.date = Today /\ sched_pc = "idle")
        => \E j \in Due(now) : j.call = last.call

\* C3: a failed playback leaves the state file as it was, from the entry of
\* play_audio to its return, and the schedule process goes on idling.
C3_FailureLeavesState ==
    [][/\ (sched_pc = "idle" /\ sched_pc' = "playing")
            => state_file' = state_file
       /\ (sched_pc = "playing" /\ last'.result = "failed")
            => (state_file' = state_file /\ sched_pc' = "idle")]_vars

\* C3 witness: a playback has failed on a date on which another call was
\* played and recorded, and the process idles.
C3_Witness ==
    /\ last.result = "failed"
    /\ last.date = Today
    /\ sched_pc = "idle"
    /\ state_file.kind = "json"
    /\ state_file.date = Today
    /\ state_file.played_calls # <<>>
    /\ ~Contains(state_file.played_calls, last.call)

\* C4: every call the schedule process fires on a date belongs to the
\* profile of that date.
C4_FiredCallInActiveProfile ==
    (last.result # "none" /\ last.date = Today)
        => last.call \in DOMAIN ActiveProfile(last.date)

\* C5: load_state returns a state of today, and an empty one unless the
\* file holds a state of today.
C5_LoadStateIsToday ==
    loaded.kind # "none" =>
        /\ loaded.state.date = loaded.today
        /\ ~(loaded.kind = "json" /\ loaded.date = loaded.today)
                => loaded.state.played_calls = <<>>

\* C5 witness: load_state has read a file that holds the played calls of
\* an earlier date.
C5_Witness ==
    /\ loaded.kind = "json"
    /\ loaded.date # loaded.today
    /\ state_file.played_calls # <<>>
    /\ loaded.state = FreshState(Today)

\* C6: no reader finds the state file empty or partly written: neither
\* GET /status nor a load_state.
C6_ReadersSeeCompleteState ==
    /\ resp.endpoint = "status" => resp.body.kind # "empty"
    /\ loaded.kind # "empty"

\* C7: the manual play command plays on every invocation and leaves the
\* state file as it was.
C7_ManualPlayBypassesState ==
    [][(man_pc' # man_pc \/ manLast' # manLast)
            => (manLast' # "skipped" /\ state_file' = state_file)]_vars

\* C8: the state GET /status returns is today's, or has no played calls.
C8_StatusReportsToday ==
    (resp.endpoint = "status" /\ resp.code = 200)
        => (resp.body.date = resp.date \/ resp.body.played_calls = <<>>)

\* C9: a request whose X-API-Token is absent, empty or not the configured
\* token is answered 401, and neither file changes.
C9_BadTokenRejected ==
    [][(resp'.endpoint # "" /\ resp'.token # config.api_token)
            => (resp'.code = 401 /\ UNCHANGED fileVars)]_vars

\* C9 witness: a POST /play for a call of today's schedule whose clip exists
\* was sent with a wrong token.
C9_Witness ==
    /\ resp.endpoint = "play"
    /\ resp.token = "wrong"
    /\ resp.call \in DOMAIN get_todays_schedule(now)
    /\ resp.exists
    /\ resp.code = 401

\* whether POST /play has just answered an authenticated request
Answered == resp'.endpoint = "play" /\ resp'.token = config.api_token

\* the request was for a call of today's active profile whose clip exists
Valid == resp'.call \in DOMAIN ActiveProfile(Today) /\ resp'.exists

\* C10 as stated: an authenticated POST /play writes a record naming the
\* call when the call is valid, and only then; any other request is
\* answered 404 and the request file is unchanged.
C10_QueuedIffValid ==
    [][Answered =>
        /\ Valid => request_file' = Payload(resp'.call, now)
        /\ ~Valid => (resp'.code = 404 /\ UNCHANGED request_file)
        /\ resp'.result = "queued" => request_file' = Payload(resp'.call, now)
      ]_vars

\* C10 amended: a valid request is queued and recorded, or answered 500
\* when the request file cannot be written; any other is answered 404 and
\* the request file is unchanged.
C10_QueuedOrFailed ==
    [][Answered =>
        /\ Valid => \/ /\ resp'.result = "queued"
                       /\ request_file' = Payload(resp'.call, now)
                    \/ /\ resp'.code = 500
                       /\ request_file' \in {request_file, TruncatedRequest}
        /\ ~Valid => (resp'.code = 404 /\ UNCHANGED request_file)
        /\ resp'.result = "queued" => request_file' = Payload(resp'.call, now)
      ]_vars

\* C10 witness: on a Saturday or Sunday a call of the weekend profile has
\* been queued.
C10_Witness ==
    /\ resp.result = "queued"
    /\ Weekday(now) >= 5
    /\ resp.call \in DOMAIN Weekends
    /\ request_file = Payload(resp.call, now)

\* schedule_audio_jobs has run in the last step and the loop is entered
Resolved == resolved # NoResolve

\* the call is in the played_calls of the state file for today
PlayedToday(call) ==
    /\ state_file.kind = "json"
    /\ state_file.date = Today
    /\ Contains(state_file.played_calls, call)

\* a job is registered for the call
Registered(call) == \E job \in jobs : job.call = call

\* C11: when schedule.yml is missing or malformed at the start of the
\* schedule command, the process exits: it is not in its loop, and it has
\* no (empty) set of jobs to run.
C11_ConfigErrorIsFatal ==
    (Resolved /\ resolved.document \in {"missing", "malformed"})
        => sched_pc = "down"

\* C12: after schedule_audio_jobs read a well-formed document, a call of
\* the active profile that is not in today's played_calls and whose time is
\* strictly before the current time of day has a job exactly when
\* initial_startup is false, and a call whose time is not before the current
\* time of day has a job in both cases.
C12_ColdStartSuppression ==
    (Resolved /\ resolved.document = "ok") =>
        \A call \in DOMAIN ActiveProfile(Today) :
            LET time == ActiveProfile(Today)[call].time
            IN  /\ (time < TimeOfDay(now) /\ ~PlayedToday(call))
                    => (Registered(call) <=> ~resolved.initial_startup)
                /\ time >= TimeOfDay(now) => Registered(call)

\* C12 witness: a cold start after reveille's time and before taps' has
\* left out reveille, which was not played today, and registered taps.
C12_Witness ==
    /\ Resolved
    /\ resolved.document = "ok"
    /\ resolved.initial_startup
    /\ "reveille" \in DOMAIN ActiveProfile(Today)
    /\ TimeOfDay(now) = 2
    /\ ~PlayedToday("reveille")
    /\ ~Registered("reveille")
    /\ Registered("taps")

\* the schedule process has been running since before the first due time
\* of this date
RunningSinceToday == sched_pc # "down" /\ startup.date = Today

RunningSinceEarlier ==
    /\ sched_pc # "down"
    /\ startup.date # NoDate
    /\ startup.date < Today

\* C14: when the schedule process has been running since an earlier date
\* and the loop is idle past the first tick of the new date, on which no
\* call has been fired yet, a state that was persisted before is of the new
\* date: the state of the old date has been replaced.
C14_StateResetOnNewDate ==
    (RunningSinceEarlier /\ sched_pc = "idle" /\ TimeOfDay(now) >= 1
        /\ last = NoPlay /\ state_file.kind = "json")
        => state_file.date = Today

\* C15: when the schedule process left a call out at its cold start and
\* has kept running to the next date, of the same profile, then once the
\* call's time has come and the loop is idle with nothing due, the call has
\* been fired on that date (it was played, or it is the last call fired),
\* or at least a job for it exists.
C15_SkippedCallFiresNextDay ==
    (/\ RunningSinceEarlier
     /\ Today = startup.date + 1
     /\ ActiveProfile(Today) = ActiveProfile(startup.date)
     /\ sched_pc = "idle"
     /\ Due(now) = {})
        => \A call \in startup.skipped :
              ActiveProfile(Today)[call].time <= TimeOfDay(now)
                  => \/ call \in played
                     \/ (last.call = call /\ last.date = Today)
                     \/ Registered(call)

\* a job of the call has its next run on this date
PendingToday(call) ==
    \E job \in jobs : job.call = call /\ Date(job.next_run) = Today

NoDuplicates(seq) ==
    \A i, j \in 1..Len(seq) : seq[i] = seq[j] => i = j

\* C17: the played_calls of the state file never holds a call name twice,
\* whatever play_audio invocations the schedule process and the manual play
\* process have made, including a second successful play of a call on one
\* date.
C17_PlayedCallsIsSet == NoDuplicates(state_file.played_calls)

\* C17 witness: the schedule process has played a call a second time on
\* this date and saved; the state file holds the call, and the manual play's
\* name beside it.
C17_Witness ==
    /\ sched_pc = "idle"
    /\ last.result = "played"
    /\ last.again
    /\ last.date = Today
    /\ PlayedToday(last.call)
    /\ PlayedToday(ManualPlayback)

\* C18: in one schedule process, when a save_state after a successful play
\* has failed with an I/O error, still no call is played a second time on
\* one date: the call whose save failed counts as played.
C18_MarkStandsInMemory == saveFailed => ~replayed

\* C19: as long as no save_state of the schedule process has failed and
\* none is under way, every call the schedule process has played and
\* recorded on this date is in the state file whenever the file holds a
\* complete state of this date: no save of the manual play process has
\* removed it.
C19_PlayedCallsOnlyGrows ==
    (/\ ~saveFailed
     /\ sched_pc # "saving"
     /\ state_file.kind = "json"
     /\ state_file.date = Today)
        => \A call \in played : PlayedToday(call)

====
